---- MODULE Spec2Model ----
(***************************************************************************)
(* A model of ps.py: the Connection class (login, get_xml, get_student,    *)
(* close) over a mechanize browser, and the Student class (load,           *)
(* filter_courses).                                                        *)
(*                                                                         *)
(* Conventions.                                                            *)
(*   - A Python value that may be None is a sequence of length 0 or 1:     *)
(*     <<>> is None (or an element that find() did not find), <<v>> is v.  *)
(*   - Texts the code inspects character by character (due dates, grade    *)
(*     fractions) are sequences of one-character strings.                  *)
(*   - Texts the code only stores or passes on are TLA+ strings.           *)
(*   - A downloaded text / loadstring is a record with field t:            *)
(*     "empty" for '', "garbage" for a text that is not XML, "xml" for a   *)
(*     document, given as its element tree.                                *)
(***************************************************************************)
EXTENDS Integers, Sequences, FiniteSets, TLC

VARIABLES
    logged_in,   \* Connection.logged_in
    error,       \* Connection.error
    xml_data,    \* Connection.xml_data: <<>> (None) or <<text>>
    student,     \* Connection.student: <<>> (None) or <<Student>>
    page,        \* Connection.page: <<>> (None) or <<response body>>
    browser,     \* the mechanize browser: its current page and call counters
    stu,         \* a Student object the caller holds (Student() / s.load(...))
    input,       \* what the caller and the portal have at hand: a loadstring, a response body
    last         \* the most recent call: operation, arguments, outcome, transport calls

vars == <<logged_in, error, xml_data, student, page, browser, stu, input, last>>

None == <<>>

Some(v) == <<v>>

(***************************************************************************)
(* Characters and text comparison (Python 2 str comparison is by byte).    *)
(***************************************************************************)
Digits == {"0", "1", "2", "3", "4", "5", "6", "7", "8", "9"}

Chars == Digits \cup {"-", "/", "x"}

Ord(c) ==
    CASE c = "-" -> 45
      [] c = "/" -> 47
      [] c = "0" -> 48
      [] c = "1" -> 49
      [] c = "2" -> 50
      [] c = "3" -> 51
      [] c = "4" -> 52
      [] c = "5" -> 53
      [] c = "6" -> 54
      [] c = "7" -> 55
      [] c = "8" -> 56
      [] c = "9" -> 57
      [] c = "x" -> 120

DigitVal(c) == Ord(c) - 48

Min(a, b) == IF a <= b THEN a ELSE b

\* a < b for Python 2 strings: the first differing byte decides, and a proper
\* prefix is smaller.
StrLess(a, b) ==
    \/ \E i \in 1..Min(Len(a), Len(b)) :
          /\ \A j \in 1..(i - 1) : a[j] = b[j]
          /\ Ord(a[i]) < Ord(b[i])
    \/ /\ Len(a) < Len(b)
       /\ \A j \in 1..Len(a) : a[j] = b[j]

StrLessEq(a, b) == a = b \/ StrLess(a, b)

\* int(text) of a non-empty run of decimal digits.
RECURSIVE ToInt(_)
ToInt(ds) ==
    IF ds = <<>> THEN 0
    ELSE 10 * ToInt(SubSeq(ds, 1, Len(ds) - 1)) + DigitVal(ds[Len(ds)])

\* The length of the longest run of digits starting at position i (greedy).
RECURSIVE DigitRun(_, _)
DigitRun(s, i) ==
    IF i <= Len(s) /\ s[i] \in Digits THEN 1 + DigitRun(s, i + 1) ELSE 0

(***************************************************************************)
(* float(text), line 241-242: over the model's characters a text is a      *)
(* float iff it is an optional sign followed by one or more digits.        *)
(***************************************************************************)
IsFloat(s) ==
    LET body == IF s # <<>> /\ s[1] = "-" THEN Tail(s) ELSE s
    IN  /\ body # <<>>
        /\ \A i \in 1..Len(body) : body[i] \in Digits

Float(s) ==
    IF s[1] = "-" THEN 0 - ToInt(Tail(s)) ELSE ToInt(s)

(***************************************************************************)
(* The grade pattern of line 236 (anything, a slash, anything) is greedy:  *)
(* group 1 runs to the LAST slash. None when the text holds no slash.      *)
(***************************************************************************)
Slashes(s) == {i \in 1..Len(s) : s[i] = "/"}

LastSlash(s) == CHOOSE i \in Slashes(s) : \A j \in Slashes(s) : j <= i

GradeSplit(s, k) == Some([g1 |-> SubSeq(s, 1, k - 1), g2 |-> SubSeq(s, k + 1, Len(s))])

GradeMatch(s) == IF Slashes(s) = {} THEN None ELSE GradeSplit(s, LastSlash(s))

Placeholder == <<"-", "-">>

(***************************************************************************)
(* Student.__init__ without a loadstring, lines 172-189.                   *)
(***************************************************************************)
EmptyStudent ==
    [first_name |-> "", last_name |-> "", gender |-> "", gpa |-> "",
     courses |-> <<>>, loaded |-> FALSE]

(***************************************************************************)
(* The element tree of a document. An element the document lacks is None.  *)
(*   document  [t |-> "xml", Student |-> opt person]                       *)
(*   person    [FirstName, LastName, GenderCode |-> opt string,            *)
(*              AcademicRecord |-> opt [GPA |-> opt string,                *)
(*                                      Course |-> Seq(course)]]           *)
(*   course    [CourseTitle |-> opt string,                                *)
(*              UserDefinedExtensions |-> opt [CourseExtensions |-> opt    *)
(*                 [ns, CourseTeacher, CurrentGradeLetter,                 *)
(*                  CurrentGradeNumeric |-> opt string,                    *)
(*                  Assignment |-> Seq(assignment)]]]                      *)
(*   assignment [Name, Category |-> opt string, DueDate, Grade |-> opt     *)
(*              character sequence]                                        *)
(***************************************************************************)
LongNS == "urn:com:alleyoop:student-record:v0.1.0"

\* loadstring.replace(LongNS, "ao"), line 199, seen from an element's namespace.
NormalizeNS(ns) == IF ns = LongNS THEN "ao" ELSE ns

\* ET.fromstring, line 200: None stands for the ParseError it raises.
FromString(text) == IF text.t = "xml" THEN Some(text) ELSE None

\* course.find('UserDefinedExtensions').find('{ao}CourseExtensions'), line 214,
\* given that UserDefinedExtensions was found.
FindExt(ude) ==
    IF ude.CourseExtensions # None /\ NormalizeNS(ude.CourseExtensions[1].ns) = "ao"
    THEN ude.CourseExtensions
    ELSE None

(***************************************************************************)
(* Dates: the parsing and the comparison of lines 260-262.                 *)
(***************************************************************************)
\* The due-date pattern of line 260 (digits, slash, digits, slash, digits, matched
\* at the start of the text) and the int() conversions of line 261, given the
\* lengths of the three runs of digits: None when the text does not match.
DueGroups(s, n1, n2, n3) ==
    IF /\ n1 > 0
       /\ n1 + 1 <= Len(s) /\ s[n1 + 1] = "/"
       /\ n2 > 0
       /\ n1 + n2 + 2 <= Len(s) /\ s[n1 + n2 + 2] = "/"
       /\ n3 > 0
    THEN Some([month |-> ToInt(SubSeq(s, 1, n1)),
               day |-> ToInt(SubSeq(s, n1 + 2, n1 + n2 + 1)),
               year |-> ToInt(SubSeq(s, n1 + n2 + 3, n1 + n2 + n3 + 2))])
    ELSE None

DueMatch3(s, n1, n2) == DueGroups(s, n1, n2, DigitRun(s, n1 + n2 + 3))

DueMatch2(s, n1) == DueMatch3(s, n1, DigitRun(s, n1 + 2))

DueMatch(s) == DueMatch2(s, DigitRun(s, 1))

IsLeap(y) == (y % 4 = 0 /\ y % 100 # 0) \/ y % 400 = 0

DaysInMonth(y, m) ==
    IF m = 2 THEN (IF IsLeap(y) THEN 29 ELSE 28)
    ELSE IF m \in {4, 6, 9, 11} THEN 30 ELSE 31

\* datetime.date(year, month, day) raises ValueError outside these ranges.
ValidDate(d) ==
    /\ d.year \in 1..9999
    /\ d.month \in 1..12
    /\ d.day \in 1..DaysInMonth(d.year, d.month)

\* a <= b for datetime.date values.
DateLessEq(a, b) ==
    \/ a.year < b.year
    \/ a.year = b.year /\ a.month < b.month
    \/ a.year = b.year /\ a.month = b.month /\ a.day <= b.day

\* A window that leaves out its two ends.
InRangeExclusive(cutoff_date, d, td) ==
    /\ DateLessEq(cutoff_date, d) /\ cutoff_date # d
    /\ DateLessEq(d, td) /\ d # td

\* Line 262
InRange(cutoff_date, d, td) == DateLessEq(cutoff_date, d) /\ DateLessEq(d, td)

(***************************************************************************)
(* The sort of line 247: list.sort is stable and compares the keys, the    *)
(* raw due_date texts, as strings.                                         *)
(***************************************************************************)
\* A sort by calendar date instead of by the text.
DueKeyLessByDate(a, b) ==
    /\ DateLessEq(DueMatch(a.due_date)[1], DueMatch(b.due_date)[1])
    /\ DueMatch(a.due_date) # DueMatch(b.due_date)

DueKeyLess(a, b) == StrLess(a.due_date, b.due_date)

InsertAt(seq, x, k) == SubSeq(seq, 1, k) \o <<x>> \o SubSeq(seq, k + 1, Len(seq))

\* x placed after every element whose key is not greater than its own.
InsertByDue(sorted, x) ==
    InsertAt(sorted, x, Cardinality({i \in 1..Len(sorted) : ~DueKeyLess(x, sorted[i])}))

RECURSIVE SortByDue(_)
SortByDue(seq) ==
    IF seq = <<>> THEN <<>>
    ELSE InsertByDue(SortByDue(SubSeq(seq, 1, Len(seq) - 1)), seq[Len(seq)])

(***************************************************************************)
(* One assignment element, lines 227-244. A step's result is the course    *)
(* being built (tmp_crs) and the exception raised ("" for none).           *)
(***************************************************************************)
\* Lines 231-232: the category joins the list when first seen.
AddCategory(cats, c) ==
    IF \E i \in 1..Len(cats) : cats[i] = c THEN cats ELSE Append(cats, c)

\* Lines 236-244, given the match of the grade text.
StoreGraded(crs, assn, grade) ==
    IF grade = None THEN [crs |-> crs, err |-> "AttributeError"]
    ELSE IF grade[1].g1 = Placeholder THEN [crs |-> crs, err |-> ""]
    ELSE IF ~IsFloat(grade[1].g1) \/ ~IsFloat(grade[1].g2)
    THEN [crs |-> crs, err |-> "ValueError"]
    ELSE [crs |-> [crs EXCEPT !.assignments =
                      Append(@, [name |-> assn.Name[1],
                                 category |-> assn.Category[1],
                                 due_date |-> assn.DueDate[1],
                                 score |-> Float(grade[1].g1),
                                 out_of |-> Float(grade[1].g2)])],
          err |-> ""]

LoadAssignment(crs, assn) ==
    IF assn.Name = None \/ assn.Category = None
    THEN [crs |-> crs, err |-> "AttributeError"]
    ELSE IF assn.DueDate = None \/ assn.Grade = None
    THEN [crs |-> [crs EXCEPT !.categories = AddCategory(@, assn.Category[1])],
          err |-> "AttributeError"]
    ELSE StoreGraded([crs EXCEPT !.categories = AddCategory(@, assn.Category[1])],
                     assn, GradeMatch(assn.Grade[1]))

\* The loop of lines 226-244 over the assignment elements left; it stops at the
\* first exception.
RECURSIVE LoadAssignments(_, _)
LoadAssignments(acc, assns) ==
    IF assns = <<>> \/ acc.err # "" THEN acc
    ELSE LoadAssignments(LoadAssignment(acc.crs, Head(assns)), Tail(assns))

(***************************************************************************)
(* One Course element, lines 212-248: the course dictionary, or the        *)
(* exception raised before it is appended.                                 *)
(***************************************************************************)
\* Lines 246-247, once the assignment loop is through.
FinishCourse(r) ==
    IF r.err # "" THEN [crs |-> None, err |-> r.err]
    ELSE [crs |-> Some([r.crs EXCEPT !.assignments = SortByDue(@)]), err |-> ""]

\* Lines 216-244, given what line 214 found.
LoadExt(course, ext) ==
    IF \/ ext = None
       \/ ext[1].CourseTeacher = None
       \/ ext[1].CurrentGradeLetter = None
       \/ ext[1].CurrentGradeNumeric = None
    THEN [crs |-> None, err |-> "AttributeError"]
    ELSE FinishCourse(LoadAssignments(
             [crs |-> [name |-> course.CourseTitle[1],
                       teacher |-> ext[1].CourseTeacher[1],
                       letter_grade |-> ext[1].CurrentGradeLetter[1],
                       number_grade |-> ext[1].CurrentGradeNumeric[1],
                       in_progress |-> FALSE,
                       assignments |-> <<>>,
                       categories |-> <<>>],
              err |-> ""],
             ext[1].Assignment))

LoadCourse(course) ==
    IF course.UserDefinedExtensions = None \/ course.CourseTitle = None
    THEN [crs |-> None, err |-> "AttributeError"]
    ELSE LoadExt(course, FindExt(course.UserDefinedExtensions[1]))

\* Line 248: the course is appended to self.courses as soon as it is built.
AppendCourse(self, r) ==
    IF r.err # "" THEN [self |-> self, err |-> r.err]
    ELSE [self |-> [self EXCEPT !.courses = Append(@, r.crs[1])], err |-> ""]

\* The loop of lines 211-248 over the Course elements left.
RECURSIVE LoadCourses(_, _)
LoadCourses(acc, courses) ==
    IF courses = <<>> \/ acc.err # "" THEN acc
    ELSE LoadCourses(AppendCourse(acc.self, LoadCourse(Head(courses))), Tail(courses))

(***************************************************************************)
(* Student.load, lines 194-249: the Student object as the call leaves it   *)
(* and the exception raised ("" when load returns). Each field is assigned *)
(* to self as soon as it is read.                                          *)
(***************************************************************************)
\* Line 249
FinishLoad(r) ==
    IF r.err # "" THEN r ELSE [self |-> [r.self EXCEPT !.loaded = TRUE], err |-> ""]

\* Lines 207-249
LoadRecord(self, ar) ==
    IF ar = None \/ ar[1].GPA = None THEN [self |-> self, err |-> "AttributeError"]
    ELSE FinishLoad(LoadCourses([self |-> [self EXCEPT !.gpa = ar[1].GPA[1]], err |-> ""],
                                ar[1].Course))

\* Line 205
LoadGender(self, person) ==
    IF person.GenderCode = None THEN [self |-> self, err |-> "AttributeError"]
    ELSE LoadRecord([self EXCEPT !.gender = person.GenderCode[1]], person.AcademicRecord)

\* Line 204
LoadLastName(self, person) ==
    IF person.LastName = None THEN [self |-> self, err |-> "AttributeError"]
    ELSE LoadGender([self EXCEPT !.last_name = person.LastName[1]], person)

\* Line 203
LoadFirstName(self, person) ==
    IF person.FirstName = None THEN [self |-> self, err |-> "AttributeError"]
    ELSE LoadLastName([self EXCEPT !.first_name = person.FirstName[1]], person)

\* Lines 200-201
LoadRoot(self, root) ==
    IF root = None THEN [self |-> self, err |-> "ParseError"]
    ELSE IF root[1].Student = None THEN [self |-> self, err |-> "AttributeError"]
    ELSE LoadFirstName(self, root[1].Student[1])

Load(self, loadstring) == LoadRoot(self, FromString(loadstring))

\* Student(loadstring), lines 172-192: a text that is falsy ('' or None) is not loaded.
Truthy(text) == text # None /\ text[1].t # "empty"

NewStudent(loadstring) ==
    IF Truthy(loadstring) THEN Load(EmptyStudent, loadstring[1])
    ELSE [self |-> EmptyStudent, err |-> ""]

(***************************************************************************)
(* Student.filter_courses, lines 251-266.                                  *)
(***************************************************************************)
\* The inner loop of lines 258-266 from the i-th assignment on: the course as the
\* loop leaves it, and the exception raised.
RECURSIVE FilterCourse(_, _, _, _)
RECURSIVE TestDue(_, _, _, _, _)
TestDue(course, cutoff_date, td, i, ms) ==
    IF ms = None THEN [crs |-> course, err |-> "AttributeError"]
    ELSE IF ~ValidDate(ms[1]) THEN [crs |-> course, err |-> "ValueError"]
    ELSE IF InRange(cutoff_date, ms[1], td)
    THEN [crs |-> [course EXCEPT !.in_progress = TRUE], err |-> ""]
    ELSE FilterCourse(course, cutoff_date, td, i + 1)

FilterCourse(course, cutoff_date, td, i) ==
    IF i > Len(course.assignments)
    THEN [crs |-> [course EXCEPT !.in_progress = FALSE], err |-> ""]
    ELSE TestDue(course, cutoff_date, td, i, DueMatch(course.assignments[i].due_date))

\* The i-th course replaced by what the inner loop made of it.
SetCourse(self, i, r) ==
    IF r.err # "" THEN [self |-> self, err |-> r.err]
    ELSE [self |-> [self EXCEPT !.courses[i] = r.crs], err |-> ""]

\* The outer loop of line 257 from the i-th course on.
RECURSIVE FilterCourses(_, _, _, _)
FilterCourses(acc, cutoff_date, td, i) ==
    IF i > Len(acc.self.courses) \/ acc.err # "" THEN acc
    ELSE FilterCourses(SetCourse(acc.self, i,
                                 FilterCourse(acc.self.courses[i], cutoff_date, td, 1)),
                       cutoff_date, td, i + 1)

(***************************************************************************)
(* Connection.b64_md5 and Connection.hex_hmac_md5, lines 119-127. The      *)
(* digests are uninterpreted: a digest is written as the term that names   *)
(* it, so that two digests are equal only if they were computed from the   *)
(* same arguments. b64encode of a 16-byte MD5 digest ends in two padding   *)
(* characters, which line 122 cuts off.                                    *)
(***************************************************************************)
md5_digest(code) == "md5<" \o code \o ">"

b64encode(bytes) == "b64<" \o bytes \o ">=="

b64_md5(code) ==
    LET enc == b64encode(md5_digest(code))
    IN  SubSeq(enc, 1, Len(enc) - 2)

hex_hmac_md5(key, code) == "hmac_md5<" \o key \o "," \o code \o ">"

\* str.lower(), line 70, over the letters the model's passwords use.
LowerChar(c) ==
    CASE c = "P" -> "p"
      [] c = "W" -> "w"
      [] OTHER -> c

RECURSIVE Lower(_)
Lower(str) ==
    IF Len(str) = 0 THEN ""
    ELSE LowerChar(SubSeq(str, 1, 1)) \o Lower(SubSeq(str, 2, Len(str)))

(***************************************************************************)
(* The feedback search of line 80 over a response body. A body is a        *)
(* sequence of tokens: the banner's opening tag, a closing div tag, a line *)
(* break, or a piece of text. The pattern's dot does not match a line      *)
(* break; the search takes the leftmost opening tag that has a closing tag *)
(* later on its line and, being greedy, runs to the LAST closing tag of    *)
(* that line.                                                              *)
(***************************************************************************)
FeedbackOpen == "<div class=\"feedback-alert\">"

DivClose == "</div>"

Newline == "\n"

RECURSIVE Join(_)
Join(tokens) == IF tokens = <<>> THEN "" ELSE Head(tokens) \o Join(Tail(tokens))

\* A search whose dot matches line breaks too.
ClosersAnyLine(rsp, i) == {j \in (i + 1)..Len(rsp) : rsp[j] = DivClose}

\* The closing tags on the line of the opening tag at position i.
Closers(rsp, i) ==
    {j \in (i + 1)..Len(rsp) :
        /\ rsp[j] = DivClose
        /\ \A k \in (i + 1)..(j - 1) : rsp[k] # Newline}

Openers(rsp) == {i \in 1..Len(rsp) : rsp[i] = FeedbackOpen /\ Closers(rsp, i) # {}}

MinOf(S) == CHOOSE a \in S : \A b \in S : a <= b

MaxOf(S) == CHOOSE a \in S : \A b \in S : b <= a

\* group(1) of the match that starts at the opening tag at position i
FeedbackGroup(rsp, i) == Join(SubSeq(rsp, i + 1, MaxOf(Closers(rsp, i)) - 1))

FeedbackAt(rsp, openers) ==
    IF openers = {} THEN None ELSE Some(FeedbackGroup(rsp, MinOf(openers)))

\* re.search: None, or group(1) of the leftmost match.
FeedbackSearch(rsp) == FeedbackAt(rsp, Openers(rsp))

(***************************************************************************)
(* The browser. cur is the page it shows: None before anything is opened   *)
(* and after close(), else [has_link |-> whether the page holds a link     *)
(* whose URL matches 'studentdata.xml']. follows counts the follow_link    *)
(* calls of the session.                                                   *)
(***************************************************************************)
NewBrowser == [cur |-> None, follows |-> 0]

Call(f, a, v) == [f |-> f, a |-> a, v |-> v]

\* Setting a control the form does not have raises ControlNotFoundError.
HasControl(form, name) == name \in form.controls

(***************************************************************************)
(* Connection.login, lines 58-88, as a function of the Connection's state, *)
(* the arguments and what the portal serves: login_page is the page at url *)
(* ([ok |-> whether open() succeeds, has_link, form |-> None or the first  *)
(* form: its controls and the value of contextData]) and rsp the response  *)
(* to the submitted form ([body, has_link]). The result holds the fields   *)
(* the call leaves, the outcome and the transport calls made, in order.    *)
(***************************************************************************)
\* dbpw computed from the password as typed, not lowercased.
FieldValuesRawDbpw(username, password, pskey) ==
    <<Call("set", "account", username),
      Call("set", "pw", hex_hmac_md5(pskey, b64_md5(password))),
      Call("set", "dbpw", hex_hmac_md5(pskey, password)),
      Call("set", "ldappassword", password)>>

\* Lines 63-73: the controls login assigns, in order, and the values.
FieldValues(username, password, pskey) ==
    <<Call("set", "account", username),
      Call("set", "pw", hex_hmac_md5(pskey, b64_md5(password))),
      Call("set", "dbpw", hex_hmac_md5(pskey, Lower(password))),
      Call("set", "ldappassword", password)>>

LoginSteps(username, password, form) == FieldValues(username, password, form.contextData)

\* The assignments of lines 68-75 in order, up to the first one that raises; the
\* try/except of lines 71-75 lets a missing ldappassword control pass.
RECURSIVE SetFields(_, _, _)
SetFields(form, steps, acc) ==
    IF steps = <<>> \/ ~acc.ok THEN acc
    ELSE IF HasControl(form, Head(steps).a)
    THEN SetFields(form, Tail(steps), [acc EXCEPT !.calls = Append(@, Head(steps))])
    ELSE IF Head(steps).a = "ldappassword"
    THEN SetFields(form, Tail(steps), acc)
    ELSE [acc EXCEPT !.ok = FALSE]

\* Lines 58-63: open the URL, select the first form, read the context token.
CallsToKey(url) ==
    <<Call("open", url, ""), Call("select_form", "nr=0", ""), Call("get", "contextData", "")>>

\* A rejected login that also logs the Connection out.
ClassifyLogout(conn, br, calls, body, feedback) ==
    IF feedback # None
    THEN [conn |-> [conn EXCEPT !.error = feedback[1], !.logged_in = FALSE],
          browser |-> br, outcome |-> "return", ret |-> Some(FALSE), calls |-> calls]
    ELSE [conn |-> [conn EXCEPT !.logged_in = TRUE, !.page = Some(body)],
          browser |-> br, outcome |-> "return", ret |-> Some(TRUE), calls |-> calls]

\* Lines 82-88, given the result of the search of line 80.
Classify(conn, br, calls, body, feedback) ==
    IF feedback # None
    THEN [conn |-> [conn EXCEPT !.error = feedback[1]],
          browser |-> br, outcome |-> "return", ret |-> Some(FALSE), calls |-> calls]
    ELSE [conn |-> [conn EXCEPT !.logged_in = TRUE, !.page = Some(body)],
          browser |-> br, outcome |-> "return", ret |-> Some(TRUE), calls |-> calls]

\* Lines 76-88, given how the assignments of lines 68-75 went.
FillAndSubmit(conn, br, set, rsp) ==
    IF ~set.ok
    THEN [conn |-> conn, browser |-> br, outcome |-> "ControlNotFoundError",
          ret |-> None, calls |-> set.calls]
    ELSE Classify(conn, [br EXCEPT !.cur = Some([has_link |-> rsp.has_link])],
                  Append(set.calls, Call("submit", "", "")),
                  rsp.body, FeedbackSearch(rsp.body))

\* Lines 59-88, with the browser showing the login page.
LoginOnPage(conn, br, url, username, password, form, rsp) ==
    IF form = None
    THEN [conn |-> conn, browser |-> br, outcome |-> "FormNotFoundError",
          ret |-> None, calls |-> SubSeq(CallsToKey(url), 1, 2)]
    ELSE IF ~HasControl(form[1], "contextData")
    THEN [conn |-> conn, browser |-> br, outcome |-> "ControlNotFoundError",
          ret |-> None, calls |-> CallsToKey(url)]
    ELSE FillAndSubmit(conn, br,
                       SetFields(form[1], LoginSteps(username, password, form[1]),
                                 [calls |-> CallsToKey(url), ok |-> TRUE]),
                       rsp)

LoginResult(conn, br, url, username, password, login_page, rsp) ==
    IF ~login_page.ok
    THEN [conn |-> conn, browser |-> br, outcome |-> "TransportError",
          ret |-> None, calls |-> SubSeq(CallsToKey(url), 1, 1)]
    ELSE LoginOnPage(conn, [br EXCEPT !.cur = Some([has_link |-> login_page.has_link])],
                     url, username, password, login_page.form, rsp)

(***************************************************************************)
(* Connection.get_xml, lines 95-106: text is what follow_link downloads    *)
(* and has_link describes the page the browser shows afterwards.           *)
(***************************************************************************)
\* Line 98
Cached(conn) == Truthy(conn.xml_data)

\* get_xml without the test of line 95.
GetXmlResultUnchecked(conn, br, text, has_link) ==
    IF Cached(conn)
    THEN [conn |-> conn, browser |-> br, outcome |-> "return",
          ret |-> conn.xml_data, calls |-> <<>>]
    ELSE IF br.cur = None \/ ~br.cur[1].has_link
    THEN [conn |-> conn, browser |-> br,
          outcome |-> "LinkNotFoundError", ret |-> None,
          calls |-> <<Call("find_link", "studentdata.xml", "")>>]
    ELSE [conn |-> [conn EXCEPT !.xml_data = Some(text)],
          browser |-> [cur |-> Some([has_link |-> has_link]),
                       follows |-> br.follows + 1],
          outcome |-> "return", ret |-> Some(text),
          calls |-> <<Call("find_link", "studentdata.xml", ""),
                      Call("follow_link", "studentdata.xml", "")>>]

GetXmlResult(conn, br, text, has_link) ==
    IF ~conn.logged_in
    THEN [conn |-> conn, browser |-> br, outcome |-> "NotLoggedIn",
          ret |-> None, calls |-> <<>>]
    ELSE IF Cached(conn)
    THEN [conn |-> conn, browser |-> br, outcome |-> "return",
          ret |-> conn.xml_data, calls |-> <<>>]
    ELSE IF br.cur = None \/ ~br.cur[1].has_link
    THEN [conn |-> conn, browser |-> br,
          outcome |-> "LinkNotFoundError", ret |-> None,
          calls |-> <<Call("find_link", "studentdata.xml", "")>>]
    ELSE [conn |-> [conn EXCEPT !.xml_data = Some(text)],
          browser |-> [cur |-> Some([has_link |-> has_link]),
                       follows |-> br.follows + 1],
          outcome |-> "return", ret |-> Some(text),
          calls |-> <<Call("find_link", "studentdata.xml", ""),
                      Call("follow_link", "studentdata.xml", "")>>]

(***************************************************************************)
(* Connection.get_student, lines 108-113: self.student is assigned only    *)
(* when both get_xml and the Student constructor return.                   *)
(***************************************************************************)
StoreStudent(x, s) ==
    IF s.err # "" THEN [x EXCEPT !.outcome = s.err, !.ret = None]
    ELSE [x EXCEPT !.conn.student = Some(s.self), !.ret = Some(s.self)]

BuildStudent(x) == IF x.outcome # "return" THEN x ELSE StoreStudent(x, NewStudent(x.ret))

GetStudentResult(conn, br, text, has_link) == BuildStudent(GetXmlResult(conn, br, text, has_link))

(***************************************************************************)
(* Documents the portal serves and callers load.                           *)
(***************************************************************************)
MkAssn(name, category, due, grade) ==
    [Name |-> Some(name), Category |-> Some(category),
     DueDate |-> Some(due), Grade |-> Some(grade)]

MkExt(ns, assns) ==
    Some([CourseExtensions |-> Some([ns |-> ns,
                                     CourseTeacher |-> Some("Smith, Jo"),
                                     CurrentGradeLetter |-> Some("A"),
                                     CurrentGradeNumeric |-> Some("95"),
                                     Assignment |-> assns])])

MkCourse(title, assns) ==
    [CourseTitle |-> Some(title), UserDefinedExtensions |-> MkExt(LongNS, assns)]

MkDoc(first, gpa, courses) ==
    [t |-> "xml",
     Student |-> Some([FirstName |-> Some(first),
                       LastName |-> Some("Doe"),
                       GenderCode |-> Some("Male"),
                       AcademicRecord |-> Some([GPA |-> gpa, Course |-> courses])])]

EmptyText == [t |-> "empty"]

GarbageText == [t |-> "garbage"]

D_9_1_2023 == <<"9", "/", "1", "/", "2", "0", "2", "3">>

D_10_15_2023 == <<"1", "0", "/", "1", "5", "/", "2", "0", "2", "3">>

D_2_3_2024 == <<"2", "/", "3", "/", "2", "0", "2", "4">>

D_1_15_2024 == <<"1", "/", "1", "5", "/", "2", "0", "2", "4">>

D_12_1_2023 == <<"1", "2", "/", "1", "/", "2", "0", "2", "3">>

D_2_30_2024 == <<"2", "/", "3", "0", "/", "2", "0", "2", "4">>

G_18_20 == <<"1", "8", "/", "2", "0">>

G_Placeholder_20 == <<"-", "-", "/", "2", "0">>

G_x_20 == <<"x", "/", "2", "0">>

\* One course, one graded assignment and one not yet graded.
DocMath ==
    MkDoc("Johnny", Some("2.5"),
          <<MkCourse("Math", <<MkAssn("HW1", "Homework", D_1_15_2024, G_18_20),
                               MkAssn("Quiz1", "Quiz", D_9_1_2023, G_Placeholder_20)>>)>>)

\* Another student's record.
DocArt ==
    MkDoc("Ann", Some("3.9"),
          <<MkCourse("Art", <<MkAssn("Sketch", "Project", D_12_1_2023, G_18_20)>>)>>)

\* GPA/GradePointAverage is missing.
DocNoGPA == MkDoc("Bob", None, <<MkCourse("Math", <<>>)>>)

\* The second course has no extension subtree.
DocNoExt ==
    MkDoc("Eve", Some("3.0"),
          <<MkCourse("Music", <<>>),
            [CourseTitle |-> Some("Gym"), UserDefinedExtensions |-> None]>>)

SessionTexts == {EmptyText, GarbageText, DocMath, DocArt, DocNoGPA, DocNoExt}

\* The number of Course elements a text holds.
NumCourses(text) ==
    IF /\ text.t = "xml"
       /\ text.Student # None
       /\ text.Student[1].AcademicRecord # None
    THEN Len(text.Student[1].AcademicRecord[1].Course)
    ELSE 0

(***************************************************************************)
(* Bounds of the model.                                                    *)
(***************************************************************************)
\* Student.load is not called on a Student that would end with more courses.
MaxCourses == 2

\* get_xml is not called once the session has followed this many links.
MaxFollows == 2

(***************************************************************************)
(* What the portal serves in a session.                                    *)
(***************************************************************************)
AllControls == {"contextData", "account", "pw", "dbpw", "ldappassword"}

MkForm(controls, pskey) == [controls |-> controls, contextData |-> pskey]

MkLoginPage(form) == [ok |-> TRUE, has_link |-> FALSE, form |-> form]

\* open(url) raises: no page.
NoPage == [ok |-> FALSE, has_link |-> FALSE, form |-> None]

WelcomeBody == <<"Welcome">>

InvalidBody == <<FeedbackOpen, "Invalid", DivClose>>

SessionUrl == "http://powerschool.ausd.net"

SessionLoginPages == {MkLoginPage(Some(MkForm(AllControls, "k1"))), NoPage}

SessionResponses ==
    {[body |-> WelcomeBody, has_link |-> TRUE],
     [body |-> WelcomeBody, has_link |-> FALSE],
     [body |-> InvalidBody, has_link |-> FALSE]}

(***************************************************************************)
(* The operations. Each applies the whole method to the state and records  *)
(* the call in last.                                                       *)
(***************************************************************************)
Conn ==
    [logged_in |-> logged_in, error |-> error, xml_data |-> xml_data,
     student |-> student, page |-> page]

\* The Connection and browser as a method's result r leaves them.
Apply(r, op, arg) ==
    /\ logged_in' = r.conn.logged_in
    /\ error' = r.conn.error
    /\ xml_data' = r.conn.xml_data
    /\ student' = r.conn.student
    /\ page' = r.conn.page
    /\ browser' = r.browser
    /\ last' = [op |-> op, outcome |-> r.outcome, ret |-> r.ret,
                calls |-> r.calls, arg |-> arg]

\* conn.login(url, username, password)
Login(url, username, password, login_page, rsp) ==
    \E r \in {LoginResult(Conn, browser, url, username, password, login_page, rsp)} :
        /\ Apply(r, "login",
                 [url |-> url, username |-> username, password |-> password,
                  form |-> login_page.form,
                  body |-> IF r.outcome = "return" THEN Some(rsp.body) ELSE None])
        /\ UNCHANGED <<stu, input>>

\* Whether get_xml would follow the link: what is downloaded matters only then.
WouldFetch ==
    logged_in /\ ~Cached(Conn) /\ browser.cur # None /\ browser.cur[1].has_link

\* What the portal may serve when the link is followed: the calls that do not
\* follow it are given an arbitrary download, which they do not look at.
Downloads(texts) ==
    IF WouldFetch
    THEN IF browser.follows < MaxFollows THEN texts \X BOOLEAN ELSE {}
    ELSE {<<EmptyText, FALSE>>}

\* conn.get_xml()
GetXml(text, has_link) ==
    \E r \in {GetXmlResult(Conn, browser, text, has_link)} :
        /\ Apply(r, "get_xml", [text |-> None])
        /\ UNCHANGED <<stu, input>>

\* conn.get_student()
GetStudent(text, has_link) ==
    \E r \in {GetStudentResult(Conn, browser, text, has_link)} :
        /\ Apply(r, "get_student", [text |-> None])
        /\ UNCHANGED <<stu, input>>

\* conn.close(), lines 115-117
Close ==
    /\ browser' = [browser EXCEPT !.cur = None]
    /\ last' = [op |-> "close", outcome |-> "return", ret |-> None,
                calls |-> <<Call("close", "", "")>>, arg |-> [text |-> None]]
    /\ UNCHANGED <<logged_in, error, xml_data, student, page, stu, input>>

\* stu = Student(loadstring): when the constructor raises, the caller gets no object
\* and keeps the one it had.
StudentNew(loadstring) ==
    \E r \in {NewStudent(loadstring)} :
        /\ stu' = IF r.err = "" THEN r.self ELSE stu
        /\ last' = [op |-> "Student", outcome |-> IF r.err = "" THEN "return" ELSE r.err,
                    ret |-> IF r.err = "" THEN Some(r.self) ELSE None,
                    calls |-> <<>>, arg |-> [text |-> loadstring]]
        /\ UNCHANGED <<logged_in, error, xml_data, student, page, browser, input>>

\* stu.load(text)
StudentLoad(text) ==
    \E r \in {Load(stu, text)} :
        /\ Len(stu.courses) + NumCourses(text) <= MaxCourses
        /\ stu' = r.self
        /\ last' = [op |-> "load", outcome |-> IF r.err = "" THEN "return" ELSE r.err,
                    ret |-> None, calls |-> <<>>, arg |-> [text |-> Some(text)]]
        /\ UNCHANGED <<logged_in, error, xml_data, student, page, browser, input>>

\* stu.filter_courses(cutoff_date) on a day td
StudentFilter(cutoff_date, td) ==
    \E r \in {FilterCourses([self |-> stu, err |-> ""], cutoff_date, td, 1)} :
        /\ stu' = r.self
        /\ last' = [op |-> "filter_courses",
                    outcome |-> IF r.err = "" THEN "return" ELSE r.err,
                    ret |-> None, calls |-> <<>>,
                    arg |-> [cutoff_date |-> cutoff_date, td |-> td]]
        /\ UNCHANGED <<logged_in, error, xml_data, student, page, browser, input>>

(***************************************************************************)
(* A session: conn = Connection() (lines 29-44) and stu = Student().       *)
(***************************************************************************)
NoInput == [text |-> EmptyText, body |-> <<>>]

InitState ==
    /\ logged_in = FALSE
    /\ error = ""
    /\ xml_data = None
    /\ student = None
    /\ page = None
    /\ browser = NewBrowser
    /\ stu = EmptyStudent
    /\ last = [op |-> "init", outcome |-> "return", ret |-> None,
               calls |-> <<>>, arg |-> [text |-> None]]

Init == InitState /\ input = NoInput

Next ==
    \/ \E login_page \in SessionLoginPages, rsp \in SessionResponses :
          Login(SessionUrl, "12345", "PassWord", login_page, rsp)
    \/ \E d \in Downloads(SessionTexts) : GetXml(d[1], d[2])
    \/ \E d \in Downloads(SessionTexts) : GetStudent(d[1], d[2])
    \/ Close
    \/ \E loadstring \in {None} \cup {Some(text) : text \in SessionTexts} :
          StudentNew(loadstring)
    \/ \E text \in SessionTexts : StudentLoad(text)

Spec == Init /\ [][Next]_vars

(***************************************************************************)
(* Login against every kind of login page: the form lacks a control, has   *)
(* no ldappassword field, the page has no form, the page does not open.    *)
(***************************************************************************)
LoginForms ==
    {MkForm(controls, pskey) :
        controls \in {AllControls} \cup {AllControls \ {c} : c \in AllControls},
        pskey \in {"k1", "k2"}}

LoginPages == {MkLoginPage(Some(form)) : form \in LoginForms} \cup {MkLoginPage(None), NoPage}

NextLogin ==
    \/ \E password \in {"PassWord", "password"}, login_page \in LoginPages,
          rsp \in SessionResponses :
          Login(SessionUrl, "12345", password, login_page, rsp)
    \/ Close

SpecLogin == Init /\ [][NextLogin]_vars

(***************************************************************************)
(* Login against every response body of up to MaxBody tokens.              *)
(***************************************************************************)
MaxBody == 3

SeqsUpTo(S, n) == UNION {[1..k -> S] : k \in 0..n}

BodyTokens == {FeedbackOpen, DivClose, Newline, "Invalid"}

GenBodies == SeqsUpTo(BodyTokens, MaxBody)

InitBanner == InitState /\ input \in [text : {EmptyText}, body : GenBodies]

NextBanner ==
    \/ \E body \in {input.body, WelcomeBody, InvalidBody} :
          Login(SessionUrl, "12345", "PassWord",
                MkLoginPage(Some(MkForm(AllControls, "k1"))),
                [body |-> body, has_link |-> TRUE])
    \/ \E d \in Downloads({DocMath}) : GetXml(d[1], d[2])

SpecBanner == InitBanner /\ [][NextBanner]_vars

(***************************************************************************)
(* Student.load and Student.filter_courses on every document of one course *)
(* with up to MaxAssn assignments, alone or followed by a second course.   *)
(***************************************************************************)
MaxAssn == 2

GenAssns ==
    {MkAssn("A", category, due, grade) :
        category \in {"Test", "Quiz"},
        due \in {D_9_1_2023, D_10_15_2023, D_2_3_2024},
        grade \in {G_18_20, G_Placeholder_20}}
    \cup {MkAssn("A", "Test", D_2_30_2024, G_18_20),
          MkAssn("A", "Quiz", D_9_1_2023, G_x_20)}

\* The assignments named by their place in the document: A1, A2, ...
Named(assns) == [i \in DOMAIN assns |-> [assns[i] EXCEPT !.Name = Some("A" \o ToString(i))]]

CourseJan == MkCourse("History", <<MkAssn("F1", "Lab", D_1_15_2024, G_18_20)>>)

\* The three due dates of the example: chronological in the document.
CourseExample ==
    MkCourse("Example", Named(<<MkAssn("A", "Test", D_9_1_2023, G_18_20),
                                MkAssn("A", "Test", D_10_15_2023, G_18_20),
                                MkAssn("A", "Test", D_2_3_2024, G_18_20)>>))

GenCourses ==
    {MkCourse("Gen", Named(assns)) : assns \in SeqsUpTo(GenAssns, MaxAssn)}
    \cup {CourseExample}

GenDocs ==
    {MkDoc("Johnny", Some("2.5"), <<c>>) : c \in GenCourses}
    \cup {MkDoc("Johnny", Some("2.5"), <<c, CourseJan>>) : c \in GenCourses}

MkDate(y, m, d) == [year |-> y, month |-> m, day |-> d]

Cutoffs == {MkDate(2023, 9, 1), MkDate(2024, 1, 1)}

Todays == {MkDate(2023, 12, 31), MkDate(2024, 2, 3), MkDate(2024, 3, 1)}

InitParse == InitState /\ input \in [text : GenDocs, body : {<<>>}]

NextParse ==
    \/ StudentLoad(input.text)
    \/ \E loadstring \in {None, Some(input.text)} : StudentNew(loadstring)
    \/ \E cutoff_date \in Cutoffs, td \in Todays : StudentFilter(cutoff_date, td)

SpecParse == InitParse /\ [][NextParse]_vars

(***************************************************************************)
(*                              The claims                                 *)
(***************************************************************************)

\* Whether the most recent call was op and returned (raised nothing).
Returned(op) == last.op = op /\ last.outcome = "return"

C2_Memoized ==
    [][(xml_data # None /\ last'.op = "get_xml")
        => /\ last'.calls = <<>>
           /\ last'.ret = xml_data
           /\ browser'.follows <= 1]_vars

(***************************************************************************)
(* C5. A parse that fails leaves no partially populated model behind.      *)
(***************************************************************************)
\* C5: when Student.load raises, the Student it was called on is as it was before
\* the call (no field or course of the failed text, loaded not set); when
\* get_student raises, Connection.student is not replaced.
C5_AllOrNothing ==
    [][/\ (last'.op = "load" /\ last'.outcome # "return") => stu' = stu
       /\ (last'.op = "get_student" /\ last'.outcome # "return") => student' = student]_vars

(***************************************************************************)
(* C6. After any sequence of parses a Student's courses are exactly those  *)
(* of the most recently parsed text, one per Course element, in document   *)
(* order.                                                                  *)
(***************************************************************************)
\* The titles of the Course elements of a text, in document order.
CourseTitles(text) ==
    [i \in 1..NumCourses(text) |-> text.Student[1].AcademicRecord[1].Course[i].CourseTitle[1]]

CourseNames(s) == [i \in DOMAIN s.courses |-> s.courses[i].name]

\* C6: after a load (or a get_student) that returned, the Student's courses are
\* the Course elements of the text just parsed, one each, in order.
C6_FreshModel ==
    /\ Returned("load") => CourseNames(stu) = CourseTitles(last.arg.text[1])
    /\ (Returned("get_student") /\ Truthy(xml_data))
          => CourseNames(student[1]) = CourseTitles(xml_data[1])

C3_CategoriesOfKept ==
    \A i \in DOMAIN stu.courses :
        /\ \A k \in DOMAIN stu.courses[i].categories :
              \E p \in DOMAIN stu.courses[i].assignments :
                  stu.courses[i].assignments[p].category = stu.courses[i].categories[k]
        /\ \A k, m \in DOMAIN stu.courses[i].categories :
              stu.courses[i].categories[k] = stu.courses[i].categories[m] => k = m

(***************************************************************************)
(* C7. After Student.load a course's assignments are its non-placeholder   *)
(* assignments, ordered by the raw due_date text compared as a string,     *)
(* equal texts in document order.                                          *)
(***************************************************************************)
\* The Course elements of the document being loaded; every load of it appends one
\* course per element, so the i-th course of stu comes from this element.
InputCourses == input.text.Student[1].AcademicRecord[1].Course

ElemAssns(i) ==
    InputCourses[((i - 1) % Len(InputCourses)) + 1]
        .UserDefinedExtensions[1].CourseExtensions[1].Assignment

\* The score part of a grade text (what precedes its last slash) is "--".
IsPlaceholderGrade(g) ==
    /\ Len(g) >= 3
    /\ g[1] = "-" /\ g[2] = "-" /\ g[3] = "/"
    /\ \A k \in 4..Len(g) : g[k] # "/"

KeptPositions(elems) == {k \in DOMAIN elems : ~IsPlaceholderGrade(elems[k].Grade[1])}

\* The place in the document of the assignment element named name.
PosOf(elems, name) == CHOOSE k \in DOMAIN elems : elems[k].Name[1] = name

\* C7: each course's assignments are a permutation of the course element's
\* non-placeholder assignments, in non-decreasing order of the due_date text as a
\* string, and assignments with the same text are in document order.
C7_SortedByDueText ==
    \A i \in DOMAIN stu.courses :
        \E asg \in {stu.courses[i].assignments}, elems \in {ElemAssns(i)} :
            /\ Len(asg) = Cardinality(KeptPositions(elems))
            /\ {asg[p].name : p \in DOMAIN asg}
                  = {elems[k].Name[1] : k \in KeptPositions(elems)}
            /\ \A p \in DOMAIN asg :
                  asg[p].due_date = elems[PosOf(elems, asg[p].name)].DueDate[1]
            /\ \A p, q \in DOMAIN asg :
                  p < q =>
                     /\ StrLessEq(asg[p].due_date, asg[q].due_date)
                     /\ asg[p].due_date = asg[q].due_date
                           => PosOf(elems, asg[p].name) < PosOf(elems, asg[q].name)

\* The example: due 9/1/2023, 10/15/2023, 2/3/2024 in the document, stored as
\* 10/15/2023, 2/3/2024, 9/1/2023.
C7_Witness ==
    /\ Returned("load")
    /\ \E i \in DOMAIN stu.courses :
          /\ Len(stu.courses[i].assignments) = 3
          /\ stu.courses[i].assignments[1].due_date = D_10_15_2023
          /\ stu.courses[i].assignments[2].due_date = D_2_3_2024
          /\ stu.courses[i].assignments[3].due_date = D_9_1_2023

(***************************************************************************)
(* C8. filter_courses sets in_progress to whether some stored assignment   *)
(* is due within [cutoff_date, today], both ends included, whatever the    *)
(* flag was before, and changes nothing else.                              *)
(***************************************************************************)
\* The calendar date each due-date text of the model's documents names; None for
\* the text that names no date.
DateOfDue(text) ==
    CASE text = D_9_1_2023 -> Some(MkDate(2023, 9, 1))
      [] text = D_10_15_2023 -> Some(MkDate(2023, 10, 15))
      [] text = D_12_1_2023 -> Some(MkDate(2023, 12, 1))
      [] text = D_1_15_2024 -> Some(MkDate(2024, 1, 15))
      [] text = D_2_3_2024 -> Some(MkDate(2024, 2, 3))
      [] OTHER -> None

\* Days since an epoch, counting every month as 31 days: monotone in the date.
DayNumber(date) == (date.year * 12 + date.month) * 31 + date.day

DueWithin(text, cutoff_date, td) ==
    /\ DayNumber(cutoff_date) <= DayNumber(DateOfDue(text)[1])
    /\ DayNumber(DateOfDue(text)[1]) <= DayNumber(td)

AllDuesValid(s) ==
    \A i \in DOMAIN s.courses : \A p \in DOMAIN s.courses[i].assignments :
        DateOfDue(s.courses[i].assignments[p].due_date) # None

\* A Student with every in_progress flag cleared.
Unflagged(s) ==
    [s EXCEPT !.courses = [i \in DOMAIN s.courses |-> [s.courses[i] EXCEPT !.in_progress = FALSE]]]

\* C8: a filter_courses call changes nothing but in_progress flags and, when every
\* due date is valid, returns with each course's flag equal to whether one of its
\* assignments is due within [cutoff_date, today], whatever the flag was before.
C8_InProgress ==
    [][last'.op = "filter_courses" =>
          /\ Unflagged(stu') = Unflagged(stu)
          /\ AllDuesValid(stu) =>
                /\ last'.outcome = "return"
                /\ \A i \in DOMAIN stu.courses :
                      stu'.courses[i].in_progress
                         = (\E p \in DOMAIN stu.courses[i].assignments :
                                DueWithin(stu.courses[i].assignments[p].due_date,
                                          last'.arg.cutoff_date, last'.arg.td))]_vars

\* Cutoff 2024-01-01, today 2024-03-01: the course with an assignment due
\* 1/15/2024 is in progress, a course whose assignments are all due in 2023 is not.
C8_Witness ==
    /\ Returned("filter_courses")
    /\ last.arg = [cutoff_date |-> MkDate(2024, 1, 1), td |-> MkDate(2024, 3, 1)]
    /\ Len(stu.courses) = 2
    /\ stu.courses[1].assignments # <<>>
    /\ ~stu.courses[1].in_progress
    /\ stu.courses[2].name = "History"
    /\ stu.courses[2].in_progress

(***************************************************************************)
(* C4. login returns False exactly when the response holds the error       *)
(* banner, and then error is the banner's inner text and neither logged_in *)
(* nor page is set; otherwise it returns True, sets logged_in and keeps    *)
(* the response as page.                                                   *)
(***************************************************************************)
\* A closing tag at j on the line of position i.
IsCloser(body, i, j) ==
    /\ i < j /\ j <= Len(body)
    /\ body[j] = DivClose
    /\ \A k \in (i + 1)..(j - 1) : body[k] # Newline

IsBannerAt(body, i) ==
    body[i] = FeedbackOpen /\ \E j \in DOMAIN body : IsCloser(body, i, j)

HasBanner(body) == \E i \in DOMAIN body : IsBannerAt(body, i)

\* e is the text between the first banner's opening tag and the last closing tag
\* on its line.
IsInnerText(body, e) ==
    \E i, j \in DOMAIN body :
        /\ IsBannerAt(body, i)
        /\ \A i2 \in 1..(i - 1) : ~IsBannerAt(body, i2)
        /\ IsCloser(body, i, j)
        /\ \A j2 \in (j + 1)..Len(body) : ~IsCloser(body, i, j2)
        /\ e = Join(SubSeq(body, i + 1, j - 1))

C9_Lowered(password) == IF password = "PassWord" THEN "password" ELSE password

C9_Expected(a) ==
    <<Call("open", a.url, ""),
      Call("select_form", "nr=0", ""),
      Call("get", "contextData", ""),
      Call("set", "account", a.username),
      Call("set", "pw", hex_hmac_md5(a.form[1].contextData, b64_md5(a.password))),
      Call("set", "dbpw", hex_hmac_md5(a.form[1].contextData, C9_Lowered(a.password)))>>
    \o (IF "ldappassword" \in a.form[1].controls
        THEN <<Call("set", "ldappassword", a.password)>> ELSE <<>>)
    \o <<Call("submit", "", "")>>

\* C9: a login that returns has made exactly the expected calls, in order, the two
\* digests keyed by the contextData of the form of that call; a form without
\* ldappassword is submitted all the same; a login that raises has opened the URL
\* once and submitted nothing.
C9_Handshake ==
    last.op = "login" =>
        /\ last.calls[1] = Call("open", last.arg.url, "")
        /\ last.outcome = "return" => last.calls = C9_Expected(last.arg)
        /\ last.outcome # "return" =>
              \A k \in DOMAIN last.calls :
                  /\ last.calls[k].f # "submit"
                  /\ k > 1 => last.calls[k].f # "open"
        /\ (last.arg.form # None /\ last.outcome # "TransportError") =>
              (last.outcome = "return"
                  <=> {"contextData", "account", "pw", "dbpw"} \subseteq last.arg.form[1].controls)

\* A form without ldappassword, submitted with a mixed-case password.
C9_Witness ==
    /\ Returned("login")
    /\ last.arg.password = "PassWord"
    /\ last.arg.form[1].controls = AllControls \ {"ldappassword"}
    /\ last.arg.form[1].contextData = "k2"
    /\ Len(last.calls) = 7

====
